---- MODULE Spec2Model ----
(***************************************************************************)
(* MealViewerClient: a thin client of the MealViewer school-menu REST API. *)
(* The client is constructed once from a configuration, and getMenu builds *)
(* a URL from a school name and one or two dates, issues one GET, and maps *)
(* the reply to a menu model or to a MealViewerError.                      *)
(*                                                                         *)
(* JavaScript strings are TLA+ strings; a value that may be undefined is a *)
(* set with at most one element ({} is undefined).                         *)
(***************************************************************************)
EXTENDS Integers, Sequences, FiniteSets, TLC

VARIABLES tz, client, console, calls

vars == <<tz, client, console, calls>>

(***************************************************************************)
(* Strings                                                                 *)
(***************************************************************************)

\* s.charAt(i - 1)
CharAt(s, i) == SubSeq(s, i, i)

\* s.slice(i - 1)
SliceFrom(s, i) == IF i > Len(s) THEN "" ELSE SubSeq(s, i, Len(s))

\* s.slice(0, n)
Prefix(s, n) == IF n <= 0 THEN "" ELSE SubSeq(s, 1, n)

\* s.indexOf(ch) + 1 for a one-character ch (0 when ch does not occur)
IndexOfChar(s, ch) ==
    IF \E i \in 1..Len(s) : CharAt(s, i) = ch
    THEN CHOOSE i \in 1..Len(s) :
            /\ CharAt(s, i) = ch
            /\ \A j \in 1..(i - 1) : CharAt(s, j) # ch
    ELSE 0

\* date.split('-')
RECURSIVE SplitDash(_)
SplitDash(s) ==
    LET i == IndexOfChar(s, "-")
    IN  IF i = 0
        THEN <<s>>
        ELSE <<Prefix(s, i - 1)>> \o SplitDash(SliceFrom(s, i + 1))

\* s.padStart(2, '0')
RECURSIVE PadStart2(_)
PadStart2(s) == IF Len(s) >= 2 THEN s ELSE PadStart2("0" \o s)

UpperAlphabet == "ABCDEFGHIJKLMNOPQRSTUVWXYZ"
LowerAlphabet == "abcdefghijklmnopqrstuvwxyz"

LowerChar(ch) ==
    LET i == IndexOfChar(UpperAlphabet, ch)
    IN  IF i = 0 THEN ch ELSE CharAt(LowerAlphabet, i)

\* s.toLowerCase()
RECURSIVE ToLowerCase(_)
ToLowerCase(s) ==
    IF s = "" THEN "" ELSE LowerChar(CharAt(s, 1)) \o ToLowerCase(SliceFrom(s, 2))

\* s.includes(kw)
Includes(s, kw) ==
    \E i \in 1..(Len(s) - Len(kw) + 1) : SubSeq(s, i, i + Len(kw) - 1) = kw

(***************************************************************************)
(* Numbers: a JavaScript number is an integer or NaN.                      *)
(***************************************************************************)

NaN == [nan |-> TRUE, n |-> 0]
Num(n) == [nan |-> FALSE, n |-> n]

\* a + k
Plus(a, k) == IF a.nan THEN NaN ELSE Num(a.n + k)

\* String(a)
NumToString(a) == IF a.nan THEN "NaN" ELSE ToString(a.n)

(***************************************************************************)
(* Date values: an instant, kept as its UTC calendar day and hour, or the  *)
(* Invalid Date.  The getters read the instant in the local time zone of   *)
(* the process, tz hours east of UTC.                                      *)
(***************************************************************************)

InvalidTime == [valid |-> FALSE, year |-> 0, month |-> 0, day |-> 0, hour |-> 0]
Time(y, m, d, h) == [valid |-> TRUE, year |-> y, month |-> m, day |-> d, hour |-> h]

IsLeapYear(y) == (y % 4 = 0 /\ y % 100 # 0) \/ y % 400 = 0

DaysInMonth(y, m) ==
    IF m = 2 THEN (IF IsLeapYear(y) THEN 29 ELSE 28)
    ELSE IF m \in {4, 6, 9, 11} THEN 30 ELSE 31

PrevDay(t) ==
    IF t.day > 1 THEN [t EXCEPT !.day = t.day - 1]
    ELSE IF t.month > 1
         THEN [t EXCEPT !.month = t.month - 1, !.day = DaysInMonth(t.year, t.month - 1)]
         ELSE [t EXCEPT !.year = t.year - 1, !.month = 12, !.day = 31]

NextDay(t) ==
    IF t.day < DaysInMonth(t.year, t.month) THEN [t EXCEPT !.day = t.day + 1]
    ELSE IF t.month < 12
         THEN [t EXCEPT !.month = t.month + 1, !.day = 1]
         ELSE [t EXCEPT !.year = t.year + 1, !.month = 1, !.day = 1]

\* the instant t moved by k hours, -24 < k < 24
ShiftHours(t, k) ==
    LET h == t.hour + k
    IN  IF h < 0 THEN [PrevDay(t) EXCEPT !.hour = h + 24]
        ELSE IF h > 23 THEN [NextDay(t) EXCEPT !.hour = h - 24]
        ELSE [t EXCEPT !.hour = h]

\* the local calendar fields of an instant in a zone off hours east of UTC
LocalFields(t, off) == ShiftHours(t, off)

\* date.getMonth()
GetMonth(t, off) == IF t.valid THEN Num(LocalFields(t, off).month - 1) ELSE NaN
\* date.getDate()
GetDate(t, off) == IF t.valid THEN Num(LocalFields(t, off).day) ELSE NaN
\* date.getFullYear()
GetFullYear(t, off) == IF t.valid THEN Num(LocalFields(t, off).year) ELSE NaN

Digits == "0123456789"
IsDigits(s) == \A i \in 1..Len(s) : IndexOfChar(Digits, CharAt(s, i)) # 0

RECURSIVE ParseDigits(_)
ParseDigits(s) ==
    IF s = "" THEN 0
    ELSE 10 * ParseDigits(Prefix(s, Len(s) - 1)) + (IndexOfChar(Digits, CharAt(s, Len(s))) - 1)

\* the calendar day written YYYY-MM-DD at the head of s, or InvalidTime
ParseDay(s) ==
    IF /\ Len(s) >= 10
       /\ IsDigits(SubSeq(s, 1, 4)) /\ CharAt(s, 5) = "-"
       /\ IsDigits(SubSeq(s, 6, 7)) /\ CharAt(s, 8) = "-"
       /\ IsDigits(SubSeq(s, 9, 10))
    THEN LET y == ParseDigits(SubSeq(s, 1, 4))
             m == ParseDigits(SubSeq(s, 6, 7))
             d == ParseDigits(SubSeq(s, 9, 10))
         IN  IF m \in 1..12 /\ d >= 1 /\ d <= DaysInMonth(y, m)
             THEN Time(y, m, d, 0)
             ELSE InvalidTime
    ELSE InvalidTime

\* new Date(s): a date-only ISO string is UTC midnight of that day, a
\* date-time string without zone (YYYY-MM-DDT00:00:00) is local midnight,
\* anything else is the Invalid Date
NewDateFromString(s, off) ==
    IF Len(s) = 10 THEN ParseDay(s)
    ELSE IF Len(s) = 19 /\ SubSeq(s, 11, 19) = "T00:00:00"
         THEN (IF ParseDay(s).valid THEN ShiftHours(ParseDay(s), 0 - off) ELSE InvalidTime)
         ELSE InvalidTime

\* new Date(y, m0, d): local midnight of the day, month 0-indexed
NewDateLocal(y, m0, d, off) == ShiftHours(Time(y, m0 + 1, d, 0), 0 - off)

(***************************************************************************)
(* Values thrown and caught.  cls is what the value is: a MealViewerError, *)
(* an AxiosError (isAxiosError true), another Error, a string or a plain   *)
(* object.  status is response.status and code is the error code, each {}  *)
(* when undefined.                                                         *)
(***************************************************************************)

Thrown(cls, status, code, message) ==
    [cls |-> cls, status |-> status, code |-> code, message |-> message]

\* new MealViewerError(message, code)
MealViewerError(message, code) == Thrown("MealViewerError", {}, {code}, message)

\* the TypeError of reading property prop of undefined
TypeErrorReading(prop) ==
    Thrown("Error", {}, {}, "Cannot read properties of undefined (reading '" \o prop \o "')")

\* a completion of a function: it returned value or it threw
Return(v) == [threw |-> {}, value |-> {v}]
Throw(e) == [threw |-> {e}, value |-> {}]
ValueOf(completion) == CHOOSE v \in completion.value : TRUE
ThrownOf(completion) == CHOOSE e \in completion.threw : TRUE

\* axios.isAxiosError(error)
IsAxiosError(error) == error.cls = "AxiosError"

\* error instanceof Error
InstanceOfError(error) == error.cls \in {"Error", "AxiosError", "MealViewerError"}

\* String(error) of a value that is no Error
StringOf(error) == IF error.cls = "string" THEN error.message ELSE "[object Object]"

(***************************************************************************)
(* Date arguments of a request: a string, a Date or undefined.             *)
(***************************************************************************)

StringArg(s) == [kind |-> "string", str |-> s, time |-> InvalidTime]
DateArg(t) == [kind |-> "Date", str |-> "", time |-> t]
UndefinedArg == [kind |-> "undefined", str |-> "", time |-> InvalidTime]

\* the truth value of a date argument: undefined and "" are falsy
Truthy(arg) ==
    \/ arg.kind = "Date"
    \/ arg.kind = "string" /\ arg.str # ""

(***************************************************************************)
(* MealViewerClient                                                        *)
(***************************************************************************)

DefaultBaseURL == "https://api.mealviewer.com/api/v4"
DefaultTimeout == 30000
DefaultUserAgent == "BrandCast/FamilyCast MealViewer Integration"

\* a || b on an optional string: undefined and "" are falsy
OrString(opt, default) == IF opt = {} \/ opt = {""} THEN default ELSE CHOOSE v \in opt : TRUE
\* a || b on an optional number: undefined and 0 are falsy
OrNumber(opt, default) == IF opt = {} \/ opt = {0} THEN default ELSE CHOOSE v \in opt : TRUE
\* a || b on an optional boolean
OrBoolean(opt, default) == IF opt = {} \/ opt = {FALSE} THEN default ELSE CHOOSE v \in opt : TRUE

\* this.log(...args): a line on the console when debug is set
LogLine(text, objs) == [text |-> "[MealViewerClient] " \o text, objs |-> objs]
Log(debug, text, objs) == IF debug THEN <<LogLine(text, objs)>> ELSE <<>>

\* axios.create({baseURL, timeout, headers}) as the constructor calls it
AxiosCreate(config) ==
    [baseURL |-> OrString(config.baseURL, DefaultBaseURL),
     timeout |-> OrNumber(config.timeout, DefaultTimeout),
     headers |-> [UserAgent |-> OrString(config.userAgent, DefaultUserAgent)]]

NoClient ==
    [constructed |-> FALSE, config |-> {}, debug |-> FALSE, axios |-> {}]

\* new MealViewerClient(config); config is kept only to state properties
NewClient(config) ==
    [constructed |-> TRUE,
     config |-> {config},
     debug |-> OrBoolean(config.debug, FALSE),
     axios |-> {AxiosCreate(config)}]

\* formatDate with the string parts joined day first
formatDate_DayFirst(date, off) ==
    IF date.kind = "string"
    THEN LET parts == SplitDash(date.str)
         IN  IF Len(parts) # 3
             THEN Throw(MealViewerError(
                      "Invalid date format: " \o date.str \o ". Expected YYYY-MM-DD",
                      "INVALID_DATE"))
             ELSE Return(parts[3] \o "-" \o parts[2] \o "-" \o parts[1])
    ELSE LET month == PadStart2(NumToString(Plus(GetMonth(date.time, off), 1)))
             day == PadStart2(NumToString(GetDate(date.time, off)))
             year == NumToString(GetFullYear(date.time, off))
         IN  Return(month \o "-" \o day \o "-" \o year)

\* formatDate(date)
formatDate(date, off) ==
    IF date.kind = "string"
    THEN LET parts == SplitDash(date.str)
         IN  IF Len(parts) # 3
             THEN Throw(MealViewerError(
                      "Invalid date format: " \o date.str \o ". Expected YYYY-MM-DD",
                      "INVALID_DATE"))
             ELSE LET year == parts[1]
                      month == parts[2]
                      day == parts[3]
                  IN  Return(month \o "-" \o day \o "-" \o year)
    ELSE LET month == PadStart2(NumToString(Plus(GetMonth(date.time, off), 1)))
             day == PadStart2(NumToString(GetDate(date.time, off)))
             year == NumToString(GetFullYear(date.time, off))
         IN  Return(month \o "-" \o day \o "-" \o year)

\* the url template of getMenu
MenuUrl(schoolName, startDate, endDate) ==
    "/school/" \o schoolName \o "/" \o startDate \o "/" \o endDate \o "/"

\* the three classes of an AxiosError, in the order of handleError
ClassifyAxiosError(error, debug) ==
    IF error.status = {404}
    THEN [logs |-> Log(debug, "School not found (404)", <<>>),
          threw |-> MealViewerError(
              "School not found. Please check the school name and try again.",
              "SCHOOL_NOT_FOUND")]
    ELSE IF error.code = {"ECONNREFUSED"} \/ error.code = {"ETIMEDOUT"}
         THEN LET code == CHOOSE k \in error.code : TRUE
              IN  [logs |-> Log(debug, "Network error: " \o code, <<>>),
                   threw |-> MealViewerError(
                       "Network error: " \o code
                           \o ". Please check your internet connection.",
                       "NETWORK_ERROR")]
         ELSE [logs |-> Log(debug, "API error: " \o error.message, <<>>),
               threw |-> MealViewerError(
                   "API request failed: " \o error.message, "API_ERROR")]

\* handleError that throws on what is no AxiosError the value it caught
handleError_Rethrow(error, debug) ==
    IF IsAxiosError(error)
    THEN ClassifyAxiosError(error, debug)
    ELSE [logs |-> Log(debug, "Unknown error:", <<error>>), threw |-> error]

\* handleError that looks at the error code before the status
handleError_CodeFirst(error, debug) ==
    IF IsAxiosError(error)
    THEN IF error.code = {"ECONNREFUSED"} \/ error.code = {"ETIMEDOUT"}
         THEN ClassifyAxiosError([error EXCEPT !.status = {}], debug)
         ELSE ClassifyAxiosError(error, debug)
    ELSE [logs |-> Log(debug, "Unknown error:", <<error>>),
          threw |-> MealViewerError(
              "Unexpected error: "
                  \o (IF InstanceOfError(error) THEN error.message ELSE StringOf(error)),
              "API_ERROR")]

\* handleError that names the cause in the message only when debug is set
handleError_Verbose(error, debug) ==
    IF IsAxiosError(error)
    THEN ClassifyAxiosError(error, debug)
    ELSE [logs |-> Log(debug, "Unknown error:", <<error>>),
          threw |-> MealViewerError(
              "Unexpected error: "
                  \o (IF ~debug THEN "internal"
                      ELSE IF InstanceOfError(error) THEN error.message
                      ELSE StringOf(error)),
              "API_ERROR")]

\* handleError(error): what it logs and the MealViewerError it throws
handleError(error, debug) ==
    IF IsAxiosError(error)
    THEN IF error.status = {404}
         THEN [logs |-> Log(debug, "School not found (404)", <<>>),
               threw |-> MealViewerError(
                   "School not found. Please check the school name and try again.",
                   "SCHOOL_NOT_FOUND")]
         ELSE IF error.code = {"ECONNREFUSED"} \/ error.code = {"ETIMEDOUT"}
              THEN LET code == CHOOSE k \in error.code : TRUE
                   IN  [logs |-> Log(debug, "Network error: " \o code, <<>>),
                        threw |-> MealViewerError(
                            "Network error: " \o code
                                \o ". Please check your internet connection.",
                            "NETWORK_ERROR")]
              ELSE [logs |-> Log(debug, "API error: " \o error.message, <<>>),
                    threw |-> MealViewerError(
                        "API request failed: " \o error.message, "API_ERROR")]
    ELSE [logs |-> Log(debug, "Unknown error:", <<error>>),
          threw |-> MealViewerError(
              "Unexpected error: "
                  \o (IF InstanceOfError(error) THEN error.message ELSE StringOf(error)),
              "API_ERROR")]

(***************************************************************************)
(* parseResponse                                                           *)
(***************************************************************************)

\* value || undefined on an optional string
OrUndefined(opt) == IF opt = {""} THEN {} ELSE opt

\* mealPeriodOf with lunch looked for before breakfast
mealPeriodOf_LunchFirst(name) ==
    LET blockName == ToLowerCase(name)
    IN  IF Includes(blockName, "lunch") THEN "Lunch"
        ELSE IF Includes(blockName, "breakfast") THEN "Breakfast"
        ELSE IF Includes(blockName, "dinner") THEN "Dinner"
        ELSE IF Includes(blockName, "snack") THEN "Snack"
        ELSE "Lunch"

\* the meal period of a block, from its name
mealPeriodOf(name) ==
    LET blockName == ToLowerCase(name)
    IN  IF Includes(blockName, "breakfast") THEN "Breakfast"
        ELSE IF Includes(blockName, "lunch") THEN "Lunch"
        ELSE IF Includes(blockName, "dinner") THEN "Dinner"
        ELSE IF Includes(blockName, "snack") THEN "Snack"
        ELSE "Lunch"

\* mapItem without the || undefined of altName and description
mapItem_KeepEmpty(item) ==
    [name |-> item.item_Name,
     altName |-> item.item_AltName,
     description |-> item.description,
     type |-> item.item_Type,
     servingSize |-> item.serving_Size,
     nutrition |-> {},
     allergens |-> {}]

\* the MenuItem of a raw food item; nutrition and allergens are never set
mapItem(item) ==
    [name |-> item.item_Name,
     altName |-> OrUndefined(item.item_AltName),
     description |-> OrUndefined(item.description),
     type |-> item.item_Type,
     servingSize |-> item.serving_Size,
     nutrition |-> {},
     allergens |-> {}]

mapLine(line) ==
    [name |-> line.name,
     items |-> [i \in 1..Len(line.foodItemList.data) |-> mapItem(line.foodItemList.data[i])]]

\* mapBlock that leaves out the lines that have no items
mapBlock_SkipEmptyLines(block) ==
    LET lines == SelectSeq(block.cafeteriaLineList.data,
                           LAMBDA l : Len(l.foodItemList.data) > 0)
    IN  [mealPeriod |-> mealPeriodOf(CHOOSE n \in block.blockName : TRUE),
         cafeteriaLines |-> [i \in 1..Len(lines) |-> mapLine(lines[i])]]

mapBlock(block) ==
    [mealPeriod |-> mealPeriodOf(CHOOSE n \in block.blockName : TRUE),
     cafeteriaLines |->
        [i \in 1..Len(block.cafeteriaLineList.data) |-> mapLine(block.cafeteriaLineList.data[i])]]

mapSchedule(schedule, school, off) ==
    [date |-> NewDateFromString(schedule.dateInformation.dateFull, off),
     school |-> school,
     meals |-> [i \in 1..Len(schedule.menuBlocks) |-> mapBlock(schedule.menuBlocks[i])]]

\* parseResponse(data): the GetMenuResponse, or the TypeError of the first
\* read of a property of undefined
parseResponse(data, off) ==
    IF data = {} THEN Throw(TypeErrorReading("physicalLocation"))
    ELSE LET raw == CHOOSE r \in data : TRUE
         IN  IF raw.physicalLocation = {} THEN Throw(TypeErrorReading("name"))
             ELSE IF raw.menuSchedules = {} THEN Throw(TypeErrorReading("map"))
             ELSE LET location == CHOOSE l \in raw.physicalLocation : TRUE
                      schedules == CHOOSE q \in raw.menuSchedules : TRUE
                      school == [name |-> location.name,
                                 address |-> location.address,
                                 city |-> location.city,
                                 state |-> location.state,
                                 latitude |-> location.latitude,
                                 longitude |-> location.longitude]
                  IN  IF \E i \in 1..Len(schedules) :
                            \E j \in 1..Len(schedules[i].menuBlocks) :
                                schedules[i].menuBlocks[j].blockName = {}
                      THEN Throw(TypeErrorReading("toLowerCase"))
                      ELSE Return(
                          [menus |-> [i \in 1..Len(schedules) |->
                                          mapSchedule(schedules[i], school, off)],
                           school |-> school])

(***************************************************************************)
(* getMenu, one call c: its request, the locals startDate and endDate, the *)
(* urls it passed to axios.get, the reply of the transport and how the     *)
(* promise it returned was settled.                                        *)
(***************************************************************************)

NoOutcome == [state |-> "none", error |-> {}, value |-> {}]
Fulfilled(v) == [state |-> "fulfilled", error |-> {}, value |-> {v}]
Rejected(e) == [state |-> "rejected", error |-> {e}, value |-> {}]

IdleCall ==
    [pc |-> "idle", request |-> {}, startDate |-> {}, endDate |-> {},
     gets |-> <<>>, reply |-> {}, outcome |-> NoOutcome]

Resolved(data) == [kind |-> "resolve", data |-> data, error |-> {}]
Failed(error) == [kind |-> "reject", data |-> {}, error |-> {error}]
TimedOut(error) == [kind |-> "timeout", data |-> {}, error |-> {error}]

\* getMenu(request) up to the await of axios.get
GetMenu(c, request) ==
    /\ client.constructed
    /\ calls[c].pc = "idle"
    /\ LET start == formatDate(request.startDate, tz)
       IN  IF start.threw # {}
           THEN /\ calls' = [calls EXCEPT ![c] =
                        [@ EXCEPT !.pc = "settled", !.request = {request},
                                  !.outcome = Rejected(ThrownOf(start))]]
                /\ UNCHANGED console
           ELSE LET end == IF Truthy(request.endDate)
                           THEN formatDate(request.endDate, tz)
                           ELSE start
                IN  IF end.threw # {}
                    THEN /\ calls' = [calls EXCEPT ![c] =
                                 [@ EXCEPT !.pc = "settled", !.request = {request},
                                           !.startDate = start.value,
                                           !.outcome = Rejected(ThrownOf(end))]]
                         /\ UNCHANGED console
                    ELSE LET url == MenuUrl(request.schoolName, ValueOf(start), ValueOf(end))
                         IN  /\ calls' = [calls EXCEPT ![c] =
                                     [@ EXCEPT !.pc = "awaiting", !.request = {request},
                                               !.startDate = start.value,
                                               !.endDate = end.value,
                                               !.gets = @ \o <<url>>]]
                             /\ console' = console
                                    \o Log(client.debug, "Fetching menu: GET " \o url, <<>>)
    /\ UNCHANGED <<tz, client>>

\* a catch block that issues the GET a second time before it gives up
Catch_Retry(c, reply, error, logged) ==
    IF Len(calls[c].gets) < 2
    THEN /\ calls' = [calls EXCEPT ![c] = [@ EXCEPT !.gets = @ \o <<@[1]>>]]
         /\ console' = console \o logged
    ELSE /\ calls' = [calls EXCEPT ![c] =
                 [@ EXCEPT !.pc = "settled", !.reply = {reply},
                           !.outcome = Rejected(handleError(error, client.debug).threw)]]
         /\ console' = console \o logged \o handleError(error, client.debug).logs

\* the catch block of getMenu: handleError(error) always throws
Catch(c, reply, error, logged) ==
    LET h == handleError(error, client.debug)
    IN  /\ calls' = [calls EXCEPT ![c] =
                [@ EXCEPT !.pc = "settled", !.reply = {reply},
                          !.outcome = Rejected(h.threw)]]
        /\ console' = console \o logged \o h.logs

\* axios.get resolves with response.data = data
AxiosResolve(c, data) ==
    /\ calls[c].pc = "awaiting"
    /\ LET logged == Log(client.debug, "Menu fetched successfully", <<>>)
           parsed == parseResponse(data, tz)
       IN  IF parsed.threw = {}
           THEN /\ calls' = [calls EXCEPT ![c] =
                        [@ EXCEPT !.pc = "settled", !.reply = {Resolved(data)},
                                  !.outcome = Fulfilled(ValueOf(parsed))]]
                /\ console' = console \o logged
           ELSE Catch(c, Resolved(data), ThrownOf(parsed), logged)
    /\ UNCHANGED <<tz, client>>

\* a rejection that fails every call that awaits a reply, not only call c
AxiosReject_AllPending(c, error) ==
    /\ calls[c].pc = "awaiting"
    /\ calls' = [d \in DOMAIN calls |->
                    IF d = c
                    THEN [calls[d] EXCEPT !.pc = "settled", !.reply = {Failed(error)},
                              !.outcome = Rejected(handleError(error, client.debug).threw)]
                    ELSE IF calls[d].pc = "awaiting"
                         THEN [calls[d] EXCEPT !.pc = "settled",
                                   !.outcome = Rejected(handleError(error, client.debug).threw)]
                         ELSE calls[d]]
    /\ console' = console \o handleError(error, client.debug).logs
    /\ UNCHANGED <<tz, client>>

\* axios.get rejects with error
AxiosReject(c, error) ==
    /\ calls[c].pc = "awaiting"
    /\ Catch(c, Failed(error), error, <<>>)
    /\ UNCHANGED <<tz, client>>

\* the codes an AxiosError carries when the timeout of the transport aborts
\* the request: ECONNABORTED, or ETIMEDOUT under transitional.clarifyTimeoutError
TimeoutCodes == {"ECONNABORTED", "ETIMEDOUT"}

TimeoutError(ms, code) ==
    Thrown("AxiosError", {}, {code}, "timeout of " \o ToString(ms) \o "ms exceeded")

\* the timeout given to axios.create aborts the request
AxiosTimeout(c, code) ==
    /\ calls[c].pc = "awaiting"
    /\ LET ms == (CHOOSE a \in client.axios : TRUE).timeout
       IN  Catch(c, TimedOut(TimeoutError(ms, code)), TimeoutError(ms, code), <<>>)
    /\ UNCHANGED <<tz, client>>

\* new MealViewerClient(config)
Constructor(config) ==
    /\ ~client.constructed
    /\ client' = NewClient(config)
    /\ console' = console
           \o Log(OrBoolean(config.debug, FALSE), "MealViewerClient initialized", <<>>)
    /\ UNCHANGED <<tz, calls>>

(***************************************************************************)
(* The inputs explored                                                     *)
(***************************************************************************)

\* hours east of UTC of the zones the process may run in
TimeZones == {-6, 0, 9}

\* calendar days <<year, month, day>>
Days == {<<2025, 1, 15>>, <<2025, 12, 25>>, <<2025, 1, 1>>, <<2024, 2, 29>>}

TwoDigits(n) == IF n < 10 THEN "0" \o ToString(n) ELSE ToString(n)

\* the day written YYYY-MM-DD
IsoString(day) == ToString(day[1]) \o "-" \o TwoDigits(day[2]) \o "-" \o TwoDigits(day[3])

\* strings that split into three parts but are not YYYY-MM-DD
LooseStrings == {"2025-1-5"}

\* strings that do not split into three parts
BadStrings == {"invalid-date", "", "2025-01-15-07", "20250115"}

\* the date arguments of a request in a zone off hours east of UTC: strings,
\* new Date(isoString), new Date(year, monthIndex, day), new Date(NaN)
DateArgs(off) ==
    {StringArg(IsoString(day)) : day \in Days}
        \cup {StringArg(s) : s \in LooseStrings \cup BadStrings}
        \cup {DateArg(NewDateFromString(IsoString(day), off)) : day \in Days}
        \cup {DateArg(NewDateLocal(day[1], day[2] - 1, day[3], off)) : day \in Days}
        \cup {DateArg(InvalidTime)}

SchoolNames == {"ElmwoodElementary", "St Mary's/Annex"}

Requests(off) ==
    [schoolName : SchoolNames,
     startDate : DateArgs(off),
     endDate : DateArgs(off) \cup {UndefinedArg}]

\* configurations: each option undefined, falsy or set
AllConfigs ==
    [baseURL : {{}, {""}, {"https://custom-api.example.com"}},
     timeout : {{}, {0}, {60000}},
     userAgent : {{}, {""}, {"Custom User Agent"}},
     debug : {{}, {FALSE}, {TRUE}}]

EmptyConfig == [baseURL |-> {}, timeout |-> {}, userAgent |-> {}, debug |-> {}]

\* the configurations of the clients whose calls are explored
CallConfigs ==
    {EmptyConfig,
     [EmptyConfig EXCEPT !.debug = {TRUE}],
     [baseURL |-> {"https://custom-api.example.com"}, timeout |-> {60000},
      userAgent |-> {"Custom User Agent"}, debug |-> {TRUE}]}

\* AxiosErrors: response status and error code, each possibly undefined
AxiosErrors ==
    {Thrown("AxiosError", status, code, "Request failed") :
        status \in {{}, {404}, {500}},
        code \in {{}, {"ECONNREFUSED"}, {"ETIMEDOUT"}, {"ECONNABORTED"}, {"ERR_BAD_RESPONSE"}}}

\* values axios.get may reject with that are no AxiosError
OtherErrors ==
    {Thrown("Error", {}, {}, "Unknown error"),
     Thrown("string", {}, {}, "boom"),
     Thrown("object", {}, {}, "ignored")}

Location ==
    [name |-> "Elmwood Elementary", address |-> "123 Main St", city |-> "Springfield",
     state |-> {"IL"}, latitude |-> {39}, longitude |-> {-89}]

FoodItem(name, altName, description, type, size) ==
    [item_Name |-> name, item_AltName |-> altName, description |-> description,
     item_Type |-> type, serving_Size |-> size, nutritionals |-> {}, allergens |-> {}]

Pizza == FoodItem("Pizza", {}, {"Cheese pizza"}, "Entree", "2 slices")
Apple == [FoodItem("Apple", {""}, {}, "Fruit", "1 each")
             EXCEPT !.nutritionals = {"calories"}, !.allergens = {"none"}]

Line(name, items) == [name |-> name, foodItemList |-> [data |-> items]]
Block(blockName, lines) == [blockName |-> blockName, cafeteriaLineList |-> [data |-> lines]]
Schedule(dateFull, blocks) == [dateInformation |-> [dateFull |-> dateFull], menuBlocks |-> blocks]
Raw(location, schedules) == [physicalLocation |-> location, menuSchedules |-> schedules]

\* response.data of the replies explored: well-formed, and with a property
\* missing
Responses ==
    {{Raw({Location}, {<<>>})},
     {Raw({Location}, {<<Schedule("2025-01-15T00:00:00",
                            <<Block({"Lunch"}, <<Line("Main Line", <<Pizza, Apple>>)>>)>>)>>})},
     {Raw({Location}, {<<Schedule("2025-01-15T00:00:00",
                            <<Block({"Breakfast"}, <<>>), Block({"Lunch"}, <<>>)>>),
                         Schedule("2025-01-16", <<Block({"Snacktime"}, <<>>)>>)>>})},
     {},
     {Raw({}, {<<>>})},
     {Raw({Location}, {})},
     {Raw({Location}, {<<Schedule("2025-01-15T00:00:00", <<Block({}, <<>>)>>)>>})}}

(***************************************************************************)
(* Spec: one client in any zone, and one getMenu call on it.               *)
(***************************************************************************)

Init ==
    /\ tz \in TimeZones
    /\ client = NoClient
    /\ console = <<>>
    /\ calls = [c \in {1} |-> IdleCall]

Next ==
    \/ \E config \in CallConfigs : Constructor(config)
    \/ \E c \in DOMAIN calls :
          calls[c].pc = "idle" /\ \E request \in Requests(tz) : GetMenu(c, request)
    \/ \E c \in DOMAIN calls :
          calls[c].pc = "awaiting" /\ \E data \in Responses : AxiosResolve(c, data)
    \/ \E c \in DOMAIN calls :
          calls[c].pc = "awaiting"
              /\ \E error \in AxiosErrors \cup OtherErrors : AxiosReject(c, error)
    \/ \E c \in DOMAIN calls :
          calls[c].pc = "awaiting" /\ \E code \in TimeoutCodes : AxiosTimeout(c, code)

Spec == Init /\ [][Next]_vars

(***************************************************************************)
(* SpecConstructor: the constructor over every configuration.              *)
(***************************************************************************)

NextConstructor == \E config \in AllConfigs : Constructor(config)

SpecConstructor == Init /\ [][NextConstructor]_vars

(***************************************************************************)
(* SpecParse: the mapping of replies whose one block has any name built    *)
(* from at most MaxNameTokens tokens, of replies with any sequence of at   *)
(* most MaxSeqLen schedules, blocks, lines or items, and of replies whose  *)
(* one item has any combination of optional fields.                        *)
(***************************************************************************)

MaxNameTokens == 2

NameTokens == {"Breakfast", "LUNCH", "Dinner", "snack", "break", "fast", "time", " & "}

RECURSIVE NamesOf(_)
NamesOf(n) ==
    IF n = 0 THEN {""}
    ELSE NamesOf(n - 1) \cup {a \o t : a \in NamesOf(n - 1), t \in NameTokens}

BlockNames == NamesOf(MaxNameTokens)

BlockResponses ==
    {{Raw({Location}, {<<Schedule("2025-01-15T00:00:00", <<Block({name}, <<>>)>>)>>})} :
        name \in BlockNames}

ParseRequest ==
    [schoolName |-> "ElmwoodElementary", startDate |-> StringArg("2025-01-15"),
     endDate |-> UndefinedArg]

MaxSeqLen == 3

\* the sequences of at most n elements of S
SeqsUpTo(S, n) == UNION {[1..m -> S] : m \in 0..n}

ShapeItems == {Pizza, Apple}
ShapeLines == {Line("Main Line", <<Pizza, Apple>>), Line("Express", <<>>)}
ShapeBlocks ==
    {Block({"Lunch"}, <<Line("Main Line", <<Pizza>>)>>), Block({"Breakfast"}, <<>>)}
ShapeSchedules ==
    {Schedule("2025-01-16T00:00:00", <<Block({"Lunch"}, <<>>)>>),
     Schedule("2025-01-15T00:00:00", <<>>)}

\* replies that vary the schedules, the blocks of one schedule, the lines of
\* one block or the items of one line
ShapeResponses ==
    {{Raw({Location}, {q})} : q \in SeqsUpTo(ShapeSchedules, MaxSeqLen)}
        \cup {{Raw({Location}, {<<Schedule("2025-01-15T00:00:00", b)>>})} :
                 b \in SeqsUpTo(ShapeBlocks, MaxSeqLen)}
        \cup {{Raw({Location}, {<<Schedule("2025-01-15T00:00:00",
                                      <<Block({"Lunch"}, l)>>)>>})} :
                 l \in SeqsUpTo(ShapeLines, MaxSeqLen)}
        \cup {{Raw({Location}, {<<Schedule("2025-01-15T00:00:00",
                                      <<Block({"Lunch"}, <<Line("Main Line", f)>>)>>)>>})} :
                 f \in SeqsUpTo(ShapeItems, MaxSeqLen)}

\* food items: each optional field missing, empty or set
ItemVariants ==
    [item_Name : {"Pizza"},
     item_AltName : {{}, {""}, {"Za"}},
     description : {{}, {""}, {"Cheese pizza"}},
     item_Type : {"Entree", "Dessert"},
     serving_Size : {"2 slices", ""},
     nutritionals : {{}, {"calories"}},
     allergens : {{}, {"milk"}}]

ItemResponses ==
    {{Raw({Location}, {<<Schedule("2025-01-15T00:00:00",
                            <<Block({"Lunch"}, <<Line("Main Line", <<item>>)>>)>>)>>})} :
        item \in ItemVariants}

NextParse ==
    \/ Constructor(EmptyConfig)
    \/ \E c \in DOMAIN calls : GetMenu(c, ParseRequest)
    \/ \E c \in DOMAIN calls :
          calls[c].pc = "awaiting" /\ \E data \in BlockResponses : AxiosResolve(c, data)
    \/ \E c \in DOMAIN calls :
          calls[c].pc = "awaiting" /\ \E data \in ShapeResponses : AxiosResolve(c, data)
    \/ \E c \in DOMAIN calls :
          calls[c].pc = "awaiting" /\ \E data \in ItemResponses : AxiosResolve(c, data)

SpecParse == Init /\ [][NextParse]_vars

(***************************************************************************)
(* SpecConc: MaxCalls getMenu calls on one client; they start and their    *)
(* replies arrive in any order.                                            *)
(***************************************************************************)

MaxCalls == 2

ConcRequests(off) ==
    {[schoolName |-> "ElmwoodElementary", startDate |-> StringArg("2025-01-15"),
      endDate |-> UndefinedArg],
     [schoolName |-> "St Mary's/Annex",
      startDate |-> DateArg(NewDateLocal(2025, 0, 1, off)),
      endDate |-> StringArg("2025-12-25")],
     [schoolName |-> "ElmwoodElementary", startDate |-> StringArg("invalid-date"),
      endDate |-> UndefinedArg]}

ConcResponses ==
    {{Raw({Location}, {<<Schedule("2025-01-15T00:00:00",
                            <<Block({"Lunch"}, <<Line("Main Line", <<Pizza, Apple>>)>>)>>)>>})},
     {}}

ConcErrors ==
    {Thrown("AxiosError", {404}, {"ERR_BAD_REQUEST"}, "Request failed"),
     Thrown("AxiosError", {}, {"ECONNREFUSED"}, "Request failed"),
     Thrown("string", {}, {}, "boom")}

InitConc ==
    /\ tz \in TimeZones
    /\ client = NoClient
    /\ console = <<>>
    /\ calls = [c \in 1..MaxCalls |-> IdleCall]

\* a client that logs and one that does not
ConcConfigs == {EmptyConfig, [EmptyConfig EXCEPT !.debug = {TRUE}]}

NextConc ==
    \/ \E config \in ConcConfigs : Constructor(config)
    \/ \E c \in DOMAIN calls :
          calls[c].pc = "idle" /\ \E request \in ConcRequests(tz) : GetMenu(c, request)
    \/ \E c \in DOMAIN calls :
          calls[c].pc = "awaiting" /\ \E data \in ConcResponses : AxiosResolve(c, data)
    \/ \E c \in DOMAIN calls :
          calls[c].pc = "awaiting" /\ \E error \in ConcErrors : AxiosReject(c, error)

SpecConc == InitConc /\ [][NextConc]_vars

(***************************************************************************)
(* Properties                                                              *)
(***************************************************************************)

\* what the call was rejected with
RejectedWith(c) == CHOOSE e \in calls[c].outcome.error : TRUE

IsRejected(c, code) ==
    /\ calls[c].outcome.state = "rejected"
    /\ \A e \in calls[c].outcome.error : e.cls = "MealViewerError" /\ e.code = {code}

\* the failure the try block of call c raised: the rejection of axios.get, or
\* what the mapping of the reply threw
FailureOf(c) ==
    UNION {IF r.kind = "resolve" THEN parseResponse(r.data, tz).threw ELSE r.error :
              r \in calls[c].reply}

\* the text of a cause: the message of an Error, String(cause) otherwise
CauseText(e) ==
    IF e.cls = "string" THEN e.message
    ELSE IF e.cls = "object" THEN "[object Object]"
    ELSE e.message

\* C1: a failure of the GET or of the mapping that is no AxiosError rejects
\* getMenu with a MealViewerError of code API_ERROR whose message holds the
\* text of the cause, and getMenu never rejects with anything that is not a
\* MealViewerError.
C1_UnknownFailuresAreApiErrors ==
    \A c \in DOMAIN calls :
        /\ calls[c].outcome.state = "rejected" =>
              \A e \in calls[c].outcome.error : e.cls = "MealViewerError"
        /\ calls[c].pc = "settled" =>
              \A cause \in FailureOf(c) :
                  ~IsAxiosError(cause) =>
                      /\ IsRejected(c, "API_ERROR")
                      /\ Includes(RejectedWith(c).message, CauseText(cause))

C1_Witness ==
    \E c \in DOMAIN calls :
        /\ calls[c].pc = "settled"
        /\ \E r \in calls[c].reply : r.kind = "resolve" /\ r.data = {}
        /\ IsRejected(c, "API_ERROR")
        /\ Includes(RejectedWith(c).message, "physicalLocation")

\* C2: an AxiosError is classified in a fixed order: status 404 is
\* SCHOOL_NOT_FOUND whatever its code; otherwise code ECONNREFUSED or
\* ETIMEDOUT is NETWORK_ERROR with the code in the message; otherwise it is
\* API_ERROR with the text of the error in the message.
C2_ClassificationOrder ==
    \A c \in DOMAIN calls :
        calls[c].pc = "settled" =>
            \A e \in FailureOf(c) :
                IsAxiosError(e) =>
                    IF 404 \in e.status
                    THEN IsRejected(c, "SCHOOL_NOT_FOUND")
                    ELSE IF e.code \cap {"ECONNREFUSED", "ETIMEDOUT"} # {}
                         THEN /\ IsRejected(c, "NETWORK_ERROR")
                              /\ \A k \in e.code : Includes(RejectedWith(c).message, k)
                         ELSE /\ IsRejected(c, "API_ERROR")
                              /\ Includes(RejectedWith(c).message, e.message)

C2_Witness ==
    \E c \in DOMAIN calls :
        /\ calls[c].pc = "settled"
        /\ \E e \in FailureOf(c) :
              IsAxiosError(e) /\ e.status = {404} /\ e.code = {"ETIMEDOUT"}
        /\ IsRejected(c, "SCHOOL_NOT_FOUND")

\* the number of dashes of s
RECURSIVE DashCount(_)
DashCount(s) ==
    IF s = "" THEN 0
    ELSE (IF CharAt(s, 1) = "-" THEN 1 ELSE 0) + DashCount(SliceFrom(s, 2))

\* a string argument that does not split into exactly three parts
Malformed(arg) == arg.kind = "string" /\ DashCount(arg.str) # 2

\* C3: a start or end date string that does not split into exactly three
\* dash-separated parts makes getMenu fail with INVALID_DATE, the input in
\* the message, and no GET is issued.
C3_MalformedDateIsRejected ==
    \A c \in DOMAIN calls :
        \A r \in calls[c].request :
            Malformed(r.startDate) \/ Malformed(r.endDate) =>
                /\ calls[c].pc = "settled"
                /\ calls[c].gets = <<>>
                /\ IsRejected(c, "INVALID_DATE")
                /\ \/ Malformed(r.startDate)
                         /\ Includes(RejectedWith(c).message, r.startDate.str)
                   \/ Malformed(r.endDate)
                         /\ Includes(RejectedWith(c).message, r.endDate.str)

\* C4: a call aborted by the timeout of the transport fails with
\* NETWORK_ERROR.
C4_TimeoutIsNetworkError ==
    \A c \in DOMAIN calls :
        (\E r \in calls[c].reply : r.kind = "timeout") => IsRejected(c, "NETWORK_ERROR")

\* the day written MM-DD-YYYY
MdyString(day) == TwoDigits(day[2]) \o "-" \o TwoDigits(day[3]) \o "-" \o ToString(day[1])

\* C5: for valid YYYY-MM-DD start and end strings and any school name the
\* GET goes to exactly /school/{schoolName}/{MM-DD-YYYY}/{MM-DD-YYYY}/, each
\* segment the month-day-year rearrangement of its input and the school
\* name verbatim.
C5_UrlOfIsoStrings ==
    \A c \in DOMAIN calls :
        \A r \in calls[c].request :
            \A d1 \in Days, d2 \in Days :
                /\ r.startDate = StringArg(IsoString(d1))
                /\ r.endDate = StringArg(IsoString(d2))
                => calls[c].gets =
                       <<"/school/" \o r.schoolName \o "/" \o MdyString(d1)
                             \o "/" \o MdyString(d2) \o "/">>

C5_Witness ==
    \E c \in DOMAIN calls :
        /\ \E r \in calls[c].request :
              /\ r.schoolName = "St Mary's/Annex"
              /\ r.startDate = StringArg("2025-01-15")
              /\ r.endDate = StringArg("2025-12-25")
        /\ calls[c].gets = <<"/school/St Mary's/Annex/01-15-2025/12-25-2025/">>

\* a date segment MM-DD-YYYY: two digits, two digits and the digits of a year
IsMonthDayYear(seg) ==
    LET parts == SplitDash(seg)
    IN  /\ Len(parts) = 3
        /\ Len(parts[1]) = 2 /\ IsDigits(parts[1])
        /\ Len(parts[2]) = 2 /\ IsDigits(parts[2])
        /\ Len(parts[3]) > 0 /\ IsDigits(parts[3])

\* C6: every date argument that is not refused with INVALID_DATE gives a
\* URL segment of the form MM-DD-YYYY, month and day of exactly two digits.
C6_SegmentsAreMonthDayYear ==
    \A c \in DOMAIN calls :
        calls[c].gets # <<>> =>
            \A seg \in calls[c].startDate \cup calls[c].endDate : IsMonthDayYear(seg)

\* C7: a calendar day passed as a Date, built from its ISO string or from
\* its year, month and day, gives the URL segment its ISO string gives.
C7_DateValueMatchesIsoString ==
    \A c \in DOMAIN calls :
        \A r \in calls[c].request :
            \A day \in Days :
                /\ calls[c].gets # <<>>
                /\ r.startDate \in
                       {DateArg(NewDateFromString(IsoString(day), tz)),
                        DateArg(NewDateLocal(day[1], day[2] - 1, day[3], tz))}
                => calls[c].startDate = {MdyString(day)}

\* C8: without endDate the end segment of the URL is the start segment;
\* with endDate it is the formatted endDate.
C8_EndSegment ==
    \A c \in DOMAIN calls :
        \A r \in calls[c].request :
            calls[c].gets # <<>> =>
                IF r.endDate = UndefinedArg
                THEN calls[c].endDate = calls[c].startDate
                ELSE calls[c].endDate = formatDate(r.endDate, tz).value

\* C9: the transport is created with the defaults where the configuration
\* gives no value, and with exactly the value given where it gives one.
C9_ConfigurationIsUsed ==
    client.constructed =>
        \A config \in client.config :
            \A a \in client.axios :
                /\ a.baseURL = (IF config.baseURL = {}
                                THEN "https://api.mealviewer.com/api/v4"
                                ELSE CHOOSE v \in config.baseURL : TRUE)
                /\ a.timeout = (IF config.timeout = {}
                                THEN 30000
                                ELSE CHOOSE v \in config.timeout : TRUE)
                /\ a.headers.UserAgent =
                       (IF config.userAgent = {}
                        THEN "BrandCast/FamilyCast MealViewer Integration"
                        ELSE CHOOSE v \in config.userAgent : TRUE)

\* a and b are the same letter, b in lower case
SameLetter(a, b) ==
    \/ a = b
    \/ \E k \in 1..Len(UpperAlphabet) :
          CharAt(UpperAlphabet, k) = a /\ CharAt(LowerAlphabet, k) = b

\* kw, in lower case, occurs in name whatever the case of name
Occurs(kw, name) ==
    \E i \in 1..(Len(name) - Len(kw) + 1) :
        \A j \in 1..Len(kw) : SameLetter(CharAt(name, i + j - 1), CharAt(kw, j))

\* period is what the priority breakfast, lunch, dinner, snack gives name
IsPeriodOf(period, name) ==
    /\ Occurs("breakfast", name) => period = "Breakfast"
    /\ ~Occurs("breakfast", name) /\ Occurs("lunch", name) => period = "Lunch"
    /\ ~Occurs("breakfast", name) /\ ~Occurs("lunch", name) /\ Occurs("dinner", name)
           => period = "Dinner"
    /\ ~Occurs("breakfast", name) /\ ~Occurs("lunch", name) /\ ~Occurs("dinner", name)
           /\ Occurs("snack", name)
           => period = "Snack"
    /\ ~Occurs("breakfast", name) /\ ~Occurs("lunch", name) /\ ~Occurs("dinner", name)
           /\ ~Occurs("snack", name)
           => period = "Lunch"

\* C10: the mealPeriod of every block is decided by the first of breakfast,
\* lunch, dinner, snack that occurs in its name, whatever the case, and is
\* Lunch when none occurs.
C10_MealPeriodPriority ==
    \A c \in DOMAIN calls :
        \A r \in calls[c].reply, v \in calls[c].outcome.value :
            \A raw \in r.data :
                \A q \in raw.menuSchedules :
                    \A i \in 1..Len(q) :
                        \A j \in 1..Len(q[i].menuBlocks) :
                            \A n \in q[i].menuBlocks[j].blockName :
                                IsPeriodOf(v.menus[i].meals[j].mealPeriod, n)

C10_Witness ==
    \E c \in DOMAIN calls :
        \E r \in calls[c].reply, v \in calls[c].outcome.value :
            \E raw \in r.data :
                \E q \in raw.menuSchedules :
                    /\ Len(q) = 1 /\ Len(q[1].menuBlocks) = 1
                    /\ q[1].menuBlocks[1].blockName = {"LUNCHBreakfast"}
                    /\ v.menus[1].meals[1].mealPeriod = "Breakfast"

\* C11: a getMenu call issues no GET when it fails with INVALID_DATE and
\* exactly one otherwise, and once it has issued its GET or has failed it
\* issues no further one, whatever the reply and the classified error.
C11_AtMostOneGet ==
    /\ [](\A c \in DOMAIN calls :
            /\ Len(calls[c].gets) <= 1
            /\ calls[c].pc # "idle" =>
                  IF IsRejected(c, "INVALID_DATE")
                  THEN calls[c].gets = <<>>
                  ELSE Len(calls[c].gets) = 1)
    /\ [][\A c \in DOMAIN calls :
            calls[c].pc # "idle" => calls'[c].gets = calls[c].gets]_vars

C11_Witness ==
    \E c \in DOMAIN calls :
        /\ calls[c].pc = "settled"
        /\ IsRejected(c, "NETWORK_ERROR")
        /\ Len(calls[c].gets) = 1

\* response.data has every property parseResponse reads
WellFormed(data) ==
    /\ data # {}
    /\ \A raw \in data :
          /\ raw.physicalLocation # {}
          /\ raw.menuSchedules # {}
          /\ \A q \in raw.menuSchedules :
                \A i \in 1..Len(q) :
                    \A j \in 1..Len(q[i].menuBlocks) : q[i].menuBlocks[j].blockName # {}

\* C12: a well-formed response is mapped to as many menus as it has
\* schedules, and menus, meals, cafeteriaLines and items have the count and
\* the order of the response: nothing is sorted, left out or deduplicated.
C12_ShapePreserved ==
    \A c \in DOMAIN calls :
        \A r \in calls[c].reply :
            r.kind = "resolve" /\ WellFormed(r.data) =>
                /\ calls[c].outcome.state = "fulfilled"
                /\ \A v \in calls[c].outcome.value, raw \in r.data :
                      \A q \in raw.menuSchedules :
                          /\ Len(v.menus) = Len(q)
                          /\ \A i \in 1..Len(q) :
                                LET blocks == q[i].menuBlocks
                                    meals == v.menus[i].meals
                                IN  /\ v.menus[i].date =
                                           NewDateFromString(q[i].dateInformation.dateFull, tz)
                                    /\ Len(meals) = Len(blocks)
                                    /\ \A j \in 1..Len(blocks) :
                                          LET lines == blocks[j].cafeteriaLineList.data
                                              mapped == meals[j].cafeteriaLines
                                          IN  /\ \A n \in blocks[j].blockName :
                                                    IsPeriodOf(meals[j].mealPeriod, n)
                                              /\ Len(mapped) = Len(lines)
                                              /\ \A k \in 1..Len(lines) :
                                                    LET items == lines[k].foodItemList.data
                                                    IN  /\ mapped[k].name = lines[k].name
                                                        /\ Len(mapped[k].items) = Len(items)
                                                        /\ \A l \in 1..Len(items) :
                                                              mapped[k].items[l].name
                                                                  = items[l].item_Name

C12_Witness ==
    \E c \in DOMAIN calls :
        \E r \in calls[c].reply, v \in calls[c].outcome.value :
            \E raw \in r.data :
                \E q \in raw.menuSchedules :
                    /\ Len(q) = 1 /\ Len(q[1].menuBlocks) = 1
                    /\ Len(q[1].menuBlocks[1].cafeteriaLineList.data) = 1
                    /\ q[1].menuBlocks[1].cafeteriaLineList.data[1].foodItemList.data
                           = <<Pizza, Apple, Pizza>>
                    /\ Len(v.menus[1].meals[1].cafeteriaLines[1].items) = 3
                    /\ v.menus[1].meals[1].cafeteriaLines[1].items[3].name = "Pizza"

Alone(request, reply, off, debug) ==
    LET start == formatDate(request.startDate, off)
    IN  IF start.threw # {}
        THEN [gets |-> <<>>, outcome |-> Rejected(ThrownOf(start))]
        ELSE LET end == IF Truthy(request.endDate)
                        THEN formatDate(request.endDate, off)
                        ELSE start
             IN  IF end.threw # {}
                 THEN [gets |-> <<>>, outcome |-> Rejected(ThrownOf(end))]
                 ELSE [gets |-> <<MenuUrl(request.schoolName, ValueOf(start), ValueOf(end))>>,
                       outcome |->
                           IF reply = {} THEN NoOutcome
                           ELSE LET r == CHOOSE x \in reply : TRUE
                                IN  IF r.kind = "resolve"
                                    THEN LET parsed == parseResponse(r.data, off)
                                         IN  IF parsed.threw = {}
                                             THEN Fulfilled(ValueOf(parsed))
                                             ELSE Rejected(
                                                 handleError(ThrownOf(parsed), debug).threw)
                                    ELSE Rejected(handleError(
                                             CHOOSE e \in r.error : TRUE, debug).threw)]

\* what a caller sees of call c
Observed(c) == [gets |-> calls[c].gets, outcome |-> calls[c].outcome]

\* C14: with overlapping getMenu calls on one client and their replies in
\* any order, each call issues the GET and has the outcome it would have
\* alone with its request and its reply; no step changes the constructed
\* client, a settled call, or more than one call, and the console only grows.
C14_CallsAreIndependent ==
    /\ [](\A c \in DOMAIN calls :
             calls[c].pc # "idle" =>
                 \A request \in calls[c].request :
                     Observed(c) = Alone(request, calls[c].reply, tz, client.debug))
    /\ [][/\ client.constructed => client' = client
          /\ \A c \in DOMAIN calls :
                /\ calls[c].pc = "settled" => calls'[c] = calls[c]
                /\ calls'[c] # calls[c] =>
                      \A d \in DOMAIN calls \ {c} : calls'[d] = calls[d]
          /\ Len(console') >= Len(console)
          /\ \A i \in 1..Len(console) : console'[i] = console[i]]_vars

\* two calls overlap and the second gets its reply first
C14_Witness ==
    /\ client.debug
    /\ calls[1].pc = "settled" /\ calls[1].outcome.state = "fulfilled"
    /\ IsRejected(2, "SCHOOL_NOT_FOUND")
    /\ calls[1].request # calls[2].request
    /\ Len(console) = 5
    /\ console[2] = LogLine("Fetching menu: GET " \o calls[1].gets[1], <<>>)
    /\ console[3] = LogLine("Fetching menu: GET " \o calls[2].gets[1], <<>>)
    /\ console[4] = LogLine("School not found (404)", <<>>)
    /\ console[5] = LogLine("Menu fetched successfully", <<>>)

\* C15: a client issues the GET, through the same axios configuration, and
\* has the result or the classified error (code and message) of the client
\* that differs from it only in the debug flag, for the same request and
\* reply; the console of a client without debug stays empty.
C15_DebugOnlyLogs ==
    /\ \A c \in DOMAIN calls :
          calls[c].pc # "idle" =>
              \A request \in calls[c].request :
                  Observed(c) = Alone(request, calls[c].reply, tz, ~client.debug)
    /\ \A config \in client.config :
          client.axios = NewClient([config EXCEPT !.debug = {~client.debug}]).axios
    /\ ~client.debug => console = <<>>

\* a client with debug set has logged the url and the kind of the error
C15_Witness ==
    /\ client.debug
    /\ \E c \in DOMAIN calls :
          /\ IsRejected(c, "API_ERROR")
          /\ \E r \in calls[c].reply :
                r.kind = "reject" /\ r.error = {Thrown("string", {}, {}, "boom")}
          /\ Len(console) = 3
          /\ console[2] = LogLine("Fetching menu: GET " \o calls[c].gets[1], <<>>)
          /\ console[3] = LogLine("Unknown error:", <<Thrown("string", {}, {}, "boom")>>)

====
